---- MODULE Spec2Model ----
(***************************************************************************)
(* Model of the TravelinBackend booking interval engine                    *)
(* (src/services/BookingService.js) over its storage collaborator (the     *)
(* bookings table), with concurrent requests whose storage calls (each     *)
(* `await`) interleave, and of the geo search engine                       *)
(* (src/services/PoiService.js, src/utils/geospatial.js) over the          *)
(* points_of_interest table.                                               *)
(*                                                                         *)
(* Dates: a YYYY-MM-DD string is modelled by its day number; `new Date(s)` *)
(* of such a string is UTC midnight of that day, in hours since the epoch. *)
(* The clock `now` is in hours since the epoch (UTC); the server's local   *)
(* time is now + tzOffset.                                                 *)
(***************************************************************************)
EXTENDS Integers, Sequences, FiniteSets, TLC

\* ------------------------------------------------------------------ bounds
MaxDay == 3            \* request dates range over days 0..MaxDay
MaxBookingId == 2      \* the autoincrement key stops here
StartNow == 2          \* the clock at startup: day 0, 02:00 UTC
MaxNow == 26           \* the clock stops advancing here
MaxLimit == 2          \* page[limit] ranges over 1..MaxLimit
MaxOffset == 3         \* page[offset] ranges over 0..MaxOffset
MaxFavoriteId == 3     \* the autoincrement key of user_favorites stops here
MaxTotalCount == 12    \* totalCount of a paged result ranges over 0..MaxTotalCount

\* --------------------------------------------------------- program constants
HoursPerDay == 24
NoId == 0              \* excludeBookingId = null
InvalidDate == -1      \* a string that `new Date` does not parse (NaN)

Procs == {"a", "b"}              \* request slots
Users == {1, 2}
Pois == {"p1", "p2"}            \* ids of the POIs that bookings are made for
PoiIds == Pois \cup {"px"}      \* poiId values a request may carry
Days == 0..MaxDay
DateInputs == Days \cup {InvalidDate}
BookingIds == 1..MaxBookingId
TzOffsets == {-5, 0, 2}         \* server time-zone offsets, hours east of UTC

\* ------------------------------------------------------ points of interest
\* Coordinates are in microdegrees, distances in metres.  A name is the
\* sequence of its UTF-16 code units: <<98>> is "b", <<66>> is "B".

Degree == 1000000      \* microdegrees in a degree
NaN == -999999999      \* the IEEE not-a-number of a failed Math.asin

\* rows the points_of_interest table may hold; rowid is the storage order
PoiPool ==
    { [id |-> "p1", rowid |-> 1, name |-> <<98>>, latitude |-> 0,
       longitude |-> 0, category |-> "SIGHTS", rank |-> 1],
      [id |-> "p2", rowid |-> 2, name |-> <<98>>, latitude |-> 0,
       longitude |-> 100000, category |-> "SIGHTS", rank |-> 1],
      [id |-> "p3", rowid |-> 3, name |-> <<97>>, latitude |-> 150000,
       longitude |-> 150000, category |-> "RESTAURANT", rank |-> 2],
      [id |-> "p4", rowid |-> 4, name |-> <<66>>, latitude |-> 0,
       longitude |-> 50000, category |-> "RESTAURANT", rank |-> 1],
      [id |-> "p5", rowid |-> 5, name |-> <<97>>, latitude |-> 60000000,
       longitude |-> -179900000, category |-> "SIGHTS", rank |-> 2],
      [id |-> "p6", rowid |-> 6, name |-> <<97, 98>>, latitude |-> 60000000,
       longitude |-> 179900000, category |-> "BEACH_PARK", rank |-> 2],
      [id |-> "p7", rowid |-> 7, name |-> <<97>>, latitude |-> 89950000,
       longitude |-> 90000000, category |-> "SIGHTS", rank |-> 3] }

VARIABLES bookings, nextId, now, tzOffset, procs, pois, favorites, nextFavoriteId

vars == <<bookings, nextId, now, tzOffset, procs, pois, favorites, nextFavoriteId>>

\* ------------------------------------------------------------ pure helpers

\* new Date('YYYY-MM-DD').getTime(): UTC midnight of the day, in hours
ParseDate(d) == d * HoursPerDay

\* isNaN(new Date(s).getTime())
IsNaN(d) == d = InvalidDate

\* today = new Date(); today.setHours(0, 0, 0, 0): midnight of the server's
\* LOCAL calendar day, as a UTC instant
Today(clock, off) == ((clock + off) \div HoursPerDay) * HoursPerDay - off

\* the calendar date (day number) of an instant on the server's local calendar
CalendarDate(clock, off) == (clock + off) \div HoursPerDay

\* the error classes of utils/errors, as thrown by the service
NotFoundError(detail, parameter) ==
    [kind |-> "error", name |-> "NotFoundError", message |-> detail,
     parameter |-> parameter]

ValidationError(detail, parameter) ==
    [kind |-> "error", name |-> "ValidationError", message |-> detail,
     parameter |-> parameter]

InstanceError(detail) ==
    [kind |-> "error", name |-> "InstanceError", message |-> detail,
     parameter |-> "none"]

NoResult == [kind |-> "none"]

IsError(r) == r.kind = "error"

\* mutant: the start bound taken strictly (a shared boundary day is missed)
M_OverlapStartBound(existingStart, newEnd) == existingStart < newEnd

\* the overlap condition of the availability query
OverlapStartBound(existingStart, newEnd) == existingStart <= newEnd
OverlapEndBound(existingEnd, newStart) == existingEnd >= newStart

Overlaps(b, startDate, endDate) ==
    /\ OverlapStartBound(b.startDate, endDate)
    /\ OverlapEndBound(b.endDate, startDate)

\* mutant: the exclusion dropped from the where condition
M_OverlappingBookings(bks, poiId, startDate, endDate, excludeBookingId) ==
    {b \in bks : b.poiId = poiId /\ Overlaps(b, startDate, endDate)}

\* the rows matched by whereCondition
OverlappingBookings(bks, poiId, startDate, endDate, excludeBookingId) ==
    {b \in bks : /\ b.poiId = poiId
                 /\ Overlaps(b, startDate, endDate)
                 /\ (excludeBookingId # NoId => b.id # excludeBookingId)}

\* mutant: the reported conflict's dates swapped
M_ConflictOf(b) == [id |-> b.id, startDate |-> b.endDate, endDate |-> b.startDate]

ConflictOf(b) == [id |-> b.id, startDate |-> b.startDate, endDate |-> b.endDate]

\* mutant: a same-day interval let through
M_EndNotAfterStart(start, end) == end < start

EndNotAfterStart(start, end) == end <= start

\* mutant: the lookup answers with some row whatever the key
M_FindPoiByPk(rows, poiId) == rows

\* PointOfInterest.findByPk(poiId) on table rows
FindPoiByPk(rows, poiId) == {r \in rows : r.id = poiId}

\* checkAvailability: the set of outcomes it can produce on storage bks (the
\* query has `limit: 1` and no order, so any matching row may be the one)
CheckAvailability(bks, poiId, startDate, endDate, excludeBookingId) ==
    IF FindPoiByPk(pois, poiId) = {}
    THEN {NotFoundError(<<"Point of Interest not found">>, "poiId")}
    ELSE IF IsNaN(startDate) \/ IsNaN(endDate)
    THEN {ValidationError(<<"Invalid date format. Use YYYY-MM-DD">>,
                          "startDate, endDate")}
    ELSE IF EndNotAfterStart(ParseDate(startDate), ParseDate(endDate))
    THEN {ValidationError(<<"End date must be after start date">>, "endDate")}
    ELSE LET rows == OverlappingBookings(bks, poiId, startDate, endDate,
                                         excludeBookingId)
         IN  IF rows # {}
             THEN {[kind |-> "availability", available |-> FALSE,
                    conflict |-> ConflictOf(b)] : b \in rows}
             ELSE {[kind |-> "availability", available |-> TRUE]}

\* ----------------------------------------------------------------- state

IdleProc ==
    [op |-> "none", pc |-> "idle", userId |-> 0, poiId |-> "none",
     startDate |-> 0, endDate |-> 0, bookingId |-> NoId,
     excludeBookingId |-> NoId, args |-> <<>>, result |-> NoResult]

Init ==
    /\ bookings = {}
    /\ nextId = 1
    /\ now = StartNow
    /\ tzOffset \in TzOffsets
    /\ procs = [p \in Procs |-> IdleProc]
    /\ pois = {r \in PoiPool : r.id \in Pois}
    /\ favorites = {}
    /\ nextFavoriteId = 1

\* A finished call's continuation runs to the controller's res.json() before
\* any other request's storage callback: no step is taken while a response is
\* pending delivery.
NoPendingResponse == \A q \in Procs : procs[q].pc # "done"

CanCall(p) == procs[p].pc = "idle" /\ NoPendingResponse

AtStep(p, op, pc) ==
    /\ NoPendingResponse
    /\ procs[p].op = op
    /\ procs[p].pc = pc

Finish(p, rec, r) ==
    procs' = [procs EXCEPT ![p] = [rec EXCEPT !.pc = "done", !.result = r]]

\* the controller sends the response (or next(error)) and the request ends
Respond(p) ==
    /\ procs[p].pc = "done"
    /\ procs' = [procs EXCEPT ![p] = IdleProc]
    /\ UNCHANGED <<bookings, nextId, now, tzOffset, pois, favorites, nextFavoriteId>>

\* ------------------------------------------------------------ createBooking

PastStart(start, today) == start < today

\* lines 18-51: POI lookup and date validation; the outcome is an error or
\* NoResult (go on to the availability check)
CreateBookingValidate(poiId, startDate, endDate, clock, off) ==
    IF FindPoiByPk(pois, poiId) = {}
    THEN NotFoundError(<<"Point of Interest not found">>, "poiId")
    ELSE IF IsNaN(startDate) \/ IsNaN(endDate)
    THEN ValidationError(<<"Invalid date format. Use YYYY-MM-DD">>,
                         "startDate, endDate")
    ELSE IF EndNotAfterStart(ParseDate(startDate), ParseDate(endDate))
    THEN ValidationError(<<"End date must be after start date">>, "endDate")
    ELSE IF PastStart(ParseDate(startDate), Today(clock, off))
    THEN ValidationError(<<"Start date cannot be in the past">>, "startDate")
    ELSE NoResult

CreateBookingCall(p, u, poi, s, e) ==
    /\ CanCall(p)
    /\ LET rec == [IdleProc EXCEPT !.op = "createBooking", !.userId = u,
                       !.poiId = poi, !.startDate = s, !.endDate = e]
           v == CreateBookingValidate(poi, s, e, now, tzOffset)
       IN  IF IsError(v)
           THEN Finish(p, rec, v)
           ELSE procs' = [procs EXCEPT ![p] =
                             [rec EXCEPT !.pc = "checkAvailability"]]
    /\ UNCHANGED <<bookings, nextId, now, tzOffset, pois, favorites, nextFavoriteId>>

\* mutant: the message carries the range in reverse
M_ConflictError(isAvailable) ==
    [kind |-> "error", name |-> "ValidationError",
     message |->
        <<"POI is not available for the selected dates. Conflicts with existing booking",
          isAvailable.conflict.endDate, isAvailable.conflict.startDate>>,
     parameter |-> "startDate, endDate"]

\* lines 55-62: the error thrown when the check reports unavailable
ConflictError(isAvailable) ==
    ValidationError(
        <<"POI is not available for the selected dates. Conflicts with existing booking",
          isAvailable.conflict.startDate, isAvailable.conflict.endDate>>,
        "startDate, endDate")

\* lines 53-62: await this.checkAvailability(...)
CreateBookingCheck(p) ==
    /\ AtStep(p, "createBooking", "checkAvailability")
    /\ \E isAvailable \in CheckAvailability(bookings, procs[p].poiId,
                              procs[p].startDate, procs[p].endDate, NoId) :
          IF IsError(isAvailable)
          THEN Finish(p, procs[p], isAvailable)
          ELSE IF ~isAvailable.available
          THEN Finish(p, procs[p], ConflictError(isAvailable))
          ELSE procs' = [procs EXCEPT ![p].pc = "create"]
    /\ UNCHANGED <<bookings, nextId, now, tzOffset, pois, favorites, nextFavoriteId>>

\* the model-level validator of Booking (endDateAfterStartDate)
EndDateAfterStartDate(startDate, endDate) ==
    ~ EndNotAfterStart(ParseDate(startDate), ParseDate(endDate))

\* mutant: the dates stored the wrong way round
M_NewBooking(id, userId, poiId, startDate, endDate) ==
    [id |-> id, userId |-> userId, poiId |-> poiId,
     startDate |-> endDate, endDate |-> startDate]

NewBooking(id, userId, poiId, startDate, endDate) ==
    [id |-> id, userId |-> userId, poiId |-> poiId,
     startDate |-> startDate, endDate |-> endDate]

\* lines 64-70: await Booking.create({...})
CreateBookingInsert(p) ==
    /\ AtStep(p, "createBooking", "create")
    /\ nextId <= MaxBookingId
    /\ IF EndDateAfterStartDate(procs[p].startDate, procs[p].endDate)
       THEN /\ bookings' = bookings \cup
                   {NewBooking(nextId, procs[p].userId, procs[p].poiId,
                               procs[p].startDate, procs[p].endDate)}
            /\ nextId' = nextId + 1
            /\ procs' = [procs EXCEPT ![p].pc = "reload",
                                      ![p].bookingId = nextId]
       ELSE /\ Finish(p, procs[p],
                      ValidationError(<<"End date must be after start date">>,
                                      "none"))
            /\ UNCHANGED <<bookings, nextId>>
    /\ UNCHANGED <<now, tzOffset, pois, favorites, nextFavoriteId>>

\* mutant: a reload whose promise never settles
M_CreateBookingReload(p) ==
    /\ AtStep(p, "createBooking", "reload")
    /\ UNCHANGED vars

\* lines 72-83: await booking.reload({include: poi}); return booking
CreateBookingReload(p) ==
    /\ AtStep(p, "createBooking", "reload")
    /\ LET rows == {b \in bookings : b.id = procs[p].bookingId}
       IN  IF rows = {}
           THEN Finish(p, procs[p],
                       InstanceError(<<"Instance could not be reloaded because it does not exist anymore">>))
           ELSE \E b \in rows :
                   Finish(p, procs[p],
                          [kind |-> "booking", booking |-> b, poi |-> b.poiId])
    /\ UNCHANGED <<bookings, nextId, now, tzOffset, pois, favorites, nextFavoriteId>>

\* ----------------------------------------- getBookingById / cancelBooking

FindByPk(bks, bookingId) == {b \in bks : b.id = bookingId}

OwnedBy(b, userId) == b.userId = userId

BookingNotFound == NotFoundError(<<"Booking not found">>, "bookingId")

\* mutant: the ownership failure told apart from absence
M_BookingNotOwned ==
    [kind |-> "error", name |-> "UnauthorizedError",
     message |-> <<"Booking belongs to another user">>,
     parameter |-> "bookingId"]

BookingNotOwned == NotFoundError(<<"Booking not found">>, "bookingId")

\* lines 121-146: the outcome of getBookingById on storage bks
GetBookingById(bks, bookingId, userId) ==
    LET rows == FindByPk(bks, bookingId)
    IN  IF rows = {}
        THEN BookingNotFound
        ELSE LET booking == CHOOSE b \in rows : TRUE
             IN  IF ~OwnedBy(booking, userId)
                 THEN BookingNotOwned
                 ELSE [kind |-> "booking", booking |-> booking,
                       poi |-> booking.poiId]

GetBookingByIdCall(p, id, u) ==
    /\ CanCall(p)
    /\ Finish(p, [IdleProc EXCEPT !.op = "getBookingById", !.bookingId = id,
                                  !.userId = u],
              GetBookingById(bookings, id, u))
    /\ UNCHANGED <<bookings, nextId, now, tzOffset, pois, favorites, nextFavoriteId>>

\* lines 154-168: the lookup and ownership check of cancelBooking; NoResult
\* means "go on to destroy"
CancelBookingLookup(bks, bookingId, userId) ==
    LET rows == FindByPk(bks, bookingId)
    IN  IF rows = {}
        THEN BookingNotFound
        ELSE IF ~OwnedBy(CHOOSE b \in rows : TRUE, userId)
        THEN BookingNotOwned
        ELSE NoResult

\* mutant: the row destroyed before the ownership check
M_CancelBookingCall(p, id, u) ==
    /\ CanCall(p)
    /\ LET rec == [IdleProc EXCEPT !.op = "cancelBooking", !.bookingId = id,
                                   !.userId = u]
           v == CancelBookingLookup(bookings, id, u)
       IN  /\ bookings' = {b \in bookings : b.id # id}
           /\ Finish(p, rec, IF IsError(v) THEN v ELSE [kind |-> "cancelled"])
    /\ UNCHANGED <<nextId, now, tzOffset, pois, favorites, nextFavoriteId>>

CancelBookingCall(p, id, u) ==
    /\ CanCall(p)
    /\ LET rec == [IdleProc EXCEPT !.op = "cancelBooking", !.bookingId = id,
                                   !.userId = u]
           v == CancelBookingLookup(bookings, id, u)
       IN  IF IsError(v)
           THEN Finish(p, rec, v)
           ELSE procs' = [procs EXCEPT ![p] = [rec EXCEPT !.pc = "destroy"]]
    /\ UNCHANGED <<bookings, nextId, now, tzOffset, pois, favorites, nextFavoriteId>>

\* mutant: a soft delete that leaves the row in place
M_Destroy(bks, bookingId) == bks

\* the rows left by DELETE FROM bookings WHERE id = bookingId
Destroy(bks, bookingId) == {b \in bks : b.id # bookingId}

\* lines 170-171: await booking.destroy(); return true
CancelBookingDestroy(p) ==
    /\ AtStep(p, "cancelBooking", "destroy")
    /\ bookings' = Destroy(bookings, procs[p].bookingId)
    /\ Finish(p, procs[p], [kind |-> "value", value |-> TRUE])
    /\ UNCHANGED <<nextId, now, tzOffset, pois, favorites, nextFavoriteId>>

\* -------------------------------------------------------- checkAvailability

\* mutant: the check records a hold for the interval it was asked about
M_CheckAvailabilityCall(p, poi, s, e, excl) ==
    /\ CanCall(p)
    /\ \E r \in CheckAvailability(bookings, poi, s, e, excl) :
          /\ Finish(p, [IdleProc EXCEPT !.op = "checkAvailability",
                            !.poiId = poi, !.startDate = s, !.endDate = e,
                            !.excludeBookingId = excl], r)
          /\ bookings' = IF r.kind = "availability" /\ r.available
                         THEN bookings \cup {NewBooking(NoId, NoId, poi, s, e)}
                         ELSE bookings
    /\ UNCHANGED <<nextId, now, tzOffset, pois, favorites, nextFavoriteId>>

CheckAvailabilityCall(p, poi, s, e, excl) ==
    /\ CanCall(p)
    /\ \E r \in CheckAvailability(bookings, poi, s, e, excl) :
          Finish(p, [IdleProc EXCEPT !.op = "checkAvailability", !.poiId = poi,
                         !.startDate = s, !.endDate = e,
                         !.excludeBookingId = excl], r)
    /\ UNCHANGED <<bookings, nextId, now, tzOffset, pois, favorites, nextFavoriteId>>

\* ---------------------------------------------------------- utils/geospatial
\* Math.sin, Math.cos, Math.asin and Math.atan2 are given by their values in
\* IEEE double arithmetic at the sample coordinates below, rounded to the
\* unit; no sample lies within a unit of a bound it is compared with.

NanodegPerKm == 8993216      \* toDegrees(1 / R), R = 6371 km
MetresPerKm == 1000
PartsPerBillion == 1000000000
MaxRadius == 20
PoleLatitude == 90
DateLine == 180
FullTurn == 360

\* centre points of radius searches, <<latitude, longitude>>
Centers == {<<0, 0>>, <<60000000, 179900000>>, <<89900000, 0>>}
Radii == {0, 10, MaxRadius}

\* IEEE arithmetic and comparisons: NaN propagates, and compares false
Plus(a, b) == IF a = NaN \/ b = NaN THEN NaN ELSE a + b
Minus(a, b) == IF a = NaN \/ b = NaN THEN NaN ELSE a - b
Leq(a, b) == a # NaN /\ b # NaN /\ a <= b
Lt(a, b) == a # NaN /\ b # NaN /\ a < b
MathMin(a, b) == IF a = NaN \/ b = NaN THEN NaN ELSE IF a <= b THEN a ELSE b
MathMax(a, b) == IF a = NaN \/ b = NaN THEN NaN ELSE IF a >= b THEN a ELSE b

\* calculateDistance at the sample points, in metres rounded up
Haversine ==
    (  <<0, 0, 0, 0>> :> 0
    @@ <<0, 0, 0, 100000>> :> 11120
    @@ <<0, 0, 150000, 150000>> :> 23588
    @@ <<0, 0, 0, 50000>> :> 5560
    @@ <<0, 0, 60000000, -179900000>> :> 13343386
    @@ <<0, 0, 60000000, 179900000>> :> 13343386
    @@ <<0, 0, 89950000, 90000000>> :> 10007544
    @@ <<60000000, 179900000, 0, 0>> :> 13343386
    @@ <<60000000, 179900000, 0, 100000>> :> 13343369
    @@ <<60000000, 179900000, 150000, 150000>> :> 13326677
    @@ <<60000000, 179900000, 0, 50000>> :> 13343379
    @@ <<60000000, 179900000, 60000000, -179900000>> :> 11120
    @@ <<60000000, 179900000, 60000000, 179900000>> :> 0
    @@ <<60000000, 179900000, 89950000, 90000000>> :> 3335843
    @@ <<89900000, 0, 0, 0>> :> 9996424
    @@ <<89900000, 0, 0, 100000>> :> 9996424
    @@ <<89900000, 0, 150000, 150000>> :> 9979745
    @@ <<89900000, 0, 0, 50000>> :> 9996424
    @@ <<89900000, 0, 60000000, -179900000>> :> 3346968
    @@ <<89900000, 0, 60000000, 179900000>> :> 3346968
    @@ <<89900000, 0, 89950000, 90000000>> :> 12432 )

CalculateDistance(lat1, lon1, lat2, lon2) == Haversine[<<lat1, lon1, lat2, lon2>>]

\* toDegrees(radDist), radDist = radiusKm / R
ToDegreesRadDist(radiusKm) == (radiusKm * NanodegPerKm) \div MetresPerKm

\* Math.sin(radDist) / Math.cos(toRadians(lat)), in parts per billion
SinRadDistOverCosLat(lat, radiusKm) ==
    CASE radiusKm = 0 -> 0
      [] lat = 0 /\ radiusKm = 1 -> 156961
      [] lat = 0 /\ radiusKm = 10 -> 1569612
      [] lat = 0 /\ radiusKm = 20 -> 3139219
      [] lat = 60000000 /\ radiusKm = 10 -> 3139223
      [] lat = 60000000 /\ radiusKm = 20 -> 6278439
      [] lat = 89900000 /\ radiusKm = 10 -> 899321693
      [] lat = 89900000 /\ radiusKm = 20 -> 1798641171

\* toDegrees(Math.asin(x)), x in parts per billion: Math.asin is NaN
\* outside [-1, 1]
ToDegreesAsin(x) ==
    IF x > PartsPerBillion THEN NaN
    ELSE CASE x = 0 -> 0
           [] x = 156961 -> 8993
           [] x = 1569612 -> 89932
           [] x = 3139219 -> 179864
           [] x = 3139223 -> 179865
           [] x = 6278439 -> 359730
           [] x = 899321693 -> 64069050

\* while (lon > 180) lon -= 360; while (lon < -180) lon += 360
RECURSIVE NormalizeLongitude(_)
NormalizeLongitude(lon) ==
    IF Lt(DateLine * Degree, lon)
    THEN NormalizeLongitude(lon - FullTurn * Degree)
    ELSE IF Lt(lon, -DateLine * Degree)
    THEN NormalizeLongitude(lon + FullTurn * Degree)
    ELSE lon

\* the number of times the bodies of the two loops of normalizeLongitude run
RECURSIVE NormalizeLongitudeIterations(_)
NormalizeLongitudeIterations(lon) ==
    IF Lt(DateLine * Degree, lon)
    THEN 1 + NormalizeLongitudeIterations(lon - FullTurn * Degree)
    ELSE IF Lt(lon, -DateLine * Degree)
    THEN 1 + NormalizeLongitudeIterations(lon + FullTurn * Degree)
    ELSE 0

GetBoundingBox(lat, lon, radiusKm) ==
    LET minLat == lat - ToDegreesRadDist(radiusKm)
        maxLat == lat + ToDegreesRadDist(radiusKm)
        deltaLon == ToDegreesAsin(SinRadDistOverCosLat(lat, radiusKm))
        minLon == Minus(lon, deltaLon)
        maxLon == Plus(lon, deltaLon)
    IN  [north |-> MathMin(maxLat, PoleLatitude * Degree),
         south |-> MathMax(minLat, -PoleLatitude * Degree),
         east |-> NormalizeLongitude(maxLon),
         west |-> NormalizeLongitude(minLon)]

IsValidCoordinate(lat, lon) ==
    /\ lat # NaN
    /\ lon # NaN
    /\ lat >= -PoleLatitude * Degree
    /\ lat <= PoleLatitude * Degree
    /\ lon >= -DateLine * Degree
    /\ lon <= DateLine * Degree

\* ----------------------------------------------------------------- strings

UpperA == 65
UpperZ == 90
CaseOffset == 32       \* 'a' - 'A'
Space == 32
Percent == 37
Underscore == 95

IsUpper(c) == c >= UpperA /\ c <= UpperZ

\* the ASCII case folding of LIKE and of the collator's primary weights
FoldCase(c) == IF IsUpper(c) THEN c + CaseOffset ELSE c

\* code-unit (BINARY collation) order of two strings: a < b
RECURSIVE SeqLess(_, _)
SeqLess(a, b) ==
    IF b = <<>> THEN FALSE
    ELSE IF a = <<>> THEN TRUE
    ELSE IF Head(a) # Head(b) THEN Head(a) < Head(b)
    ELSE SeqLess(Tail(a), Tail(b))

PrimaryKey(s) == [i \in 1..Len(s) |-> FoldCase(s[i])]
TertiaryKey(s) == [i \in 1..Len(s) |-> IF IsUpper(s[i]) THEN 1 ELSE 0]

\* a.localeCompare(b): letters compared without case first, then lower case
\* before upper case
LocaleCompare(a, b) ==
    IF SeqLess(PrimaryKey(a), PrimaryKey(b)) THEN -1
    ELSE IF SeqLess(PrimaryKey(b), PrimaryKey(a)) THEN 1
    ELSE IF SeqLess(TertiaryKey(a), TertiaryKey(b)) THEN -1
    ELSE IF SeqLess(TertiaryKey(b), TertiaryKey(a)) THEN 1
    ELSE 0

RECURSIVE TrimStart(_)
TrimStart(s) ==
    IF s # <<>> /\ Head(s) = Space THEN TrimStart(Tail(s)) ELSE s

RECURSIVE TrimEnd(_)
TrimEnd(s) ==
    IF s # <<>> /\ s[Len(s)] = Space
    THEN TrimEnd(SubSeq(s, 1, Len(s) - 1))
    ELSE s

Trim(s) == TrimEnd(TrimStart(s))

\* str LIKE pattern: % is any run of characters, _ any one character, and
\* ASCII letters match without regard to case
RECURSIVE Like(_, _)
Like(str, pattern) ==
    IF pattern = <<>> THEN str = <<>>
    ELSE IF Head(pattern) = Percent
    THEN Like(str, Tail(pattern)) \/ (str # <<>> /\ Like(Tail(str), pattern))
    ELSE /\ str # <<>>
         /\ \/ Head(pattern) = Underscore
            \/ FoldCase(Head(pattern)) = FoldCase(Head(str))
         /\ Like(Tail(str), Tail(pattern))

\* --------------------------------------------------------------- PoiService

PlainError(detail) ==
    [kind |-> "error", name |-> "Error", message |-> detail,
     parameter |-> "none"]

\* the storage engine refuses a statement
DatabaseError(detail) ==
    [kind |-> "error", name |-> "SequelizeDatabaseError", message |-> detail,
     parameter |-> "none"]

\* [Op.between]: [low, high]
Between(x, low, high) == Leq(low, x) /\ Leq(x, high)

\* mutant: the date-line branch taken as an intersection
M_LongitudeCondition(lon, west, east) ==
    IF Leq(west, east)
    THEN Between(lon, west, east)
    ELSE Leq(west, lon) /\ Leq(lon, east)

\* the longitude condition: a range, or across the date line a union
LongitudeCondition(lon, west, east) ==
    IF Leq(west, east)
    THEN Between(lon, west, east)
    ELSE Leq(west, lon) \/ Leq(lon, east)

\* mutant: an empty category list taken as a filter
M_CategoryCondition(category, categories) == category \in categories

\* categories && categories.length > 0 ? category IN categories : no filter
CategoryCondition(category, categories) ==
    categories # {} => category \in categories

\* ORDER BY rank ASC, name ASC; rows equal in both come in storage order
OrderBefore(a, b) ==
    \/ a.rank < b.rank
    \/ a.rank = b.rank /\ SeqLess(a.name, b.name)
    \/ a.rank = b.rank /\ a.name = b.name /\ a.rowid < b.rowid

RECURSIVE OrderByRankName(_)
OrderByRankName(rows) ==
    IF rows = {} THEN <<>>
    ELSE LET first == CHOOSE a \in rows :
                          \A b \in rows \ {a} : OrderBefore(a, b)
         IN  <<first>> \o OrderByRankName(rows \ {first})

\* mutant: the page starts one item early
M_Slice(items, offset, limit) ==
    IF offset >= Len(items) THEN <<>>
    ELSE SubSeq(items, MathMax(offset, 1),
                MathMin(offset + limit, Len(items)))

\* items.slice(offset, offset + limit), and LIMIT limit OFFSET offset
Slice(items, offset, limit) ==
    IF offset >= Len(items) THEN <<>>
    ELSE SubSeq(items, offset + 1, MathMin(offset + limit, Len(items)))

\* the comparator of the in-memory sort
CompareItems(a, b) ==
    IF a.poi.rank # b.poi.rank
    THEN a.poi.rank - b.poi.rank
    ELSE LocaleCompare(a.poi.name, b.poi.name)

\* Array.prototype.sort is stable: an item goes after the items that do not
\* compare greater than it
RECURSIVE InsertSorted(_, _)
InsertSorted(sorted, item) ==
    IF sorted = <<>> THEN <<item>>
    ELSE IF CompareItems(sorted[Len(sorted)], item) <= 0
    THEN Append(sorted, item)
    ELSE Append(InsertSorted(SubSeq(sorted, 1, Len(sorted) - 1), item),
                sorted[Len(sorted)])

RECURSIVE SortItems(_)
SortItems(items) ==
    IF items = <<>> THEN <<>>
    ELSE InsertSorted(SortItems(SubSeq(items, 1, Len(items) - 1)),
                      items[Len(items)])

\* mutant: the boundary taken as outside
M_WithinRadius(distance, radius) == distance < radius * MetresPerKm

\* item.distance <= radius
WithinRadius(distance, radius) == distance <= radius * MetresPerKm

\* the where condition of findByRadius on a row
RadiusWhere(r, bbox, categories) ==
    /\ Between(r.latitude, bbox.south, bbox.north)
    /\ LongitudeCondition(r.longitude, bbox.west, bbox.east)
    /\ CategoryCondition(r.category, categories)

\* poisInBox: the rows of the bounding-box query, ordered
PoisInBox(rows, latitude, longitude, radius, categories) ==
    OrderByRankName({r \in rows :
        RadiusWhere(r, GetBoundingBox(latitude, longitude, radius),
                    categories)})

\* poisWithDistance: mapped, filtered by distance, sorted
PoisWithDistance(rows, latitude, longitude, radius, categories) ==
    LET poisInBox == PoisInBox(rows, latitude, longitude, radius, categories)
        items == [i \in 1..Len(poisInBox) |->
                    [poi |-> poisInBox[i],
                     distance |-> CalculateDistance(latitude, longitude,
                                      poisInBox[i].latitude,
                                      poisInBox[i].longitude)]]
    IN  SortItems(SelectSeq(items,
                      LAMBDA item : WithinRadius(item.distance, radius)))

\* mutant: the count taken from the page
M_TotalCount(poisWithDistance, paginatedResults) == Len(paginatedResults)

\* const totalCount = poisWithDistance.length
TotalCount(poisWithDistance, paginatedResults) == Len(poisWithDistance)

Page(rows, count) == [kind |-> "page", rows |-> rows, count |-> count]

\* what findByRadius returns when its query runs
RadiusPage(rows, latitude, longitude, radius, categories, limit, offset) ==
    LET poisWithDistance ==
            PoisWithDistance(rows, latitude, longitude, radius, categories)
        slice == Slice(poisWithDistance, offset, limit)
        paginatedResults == [i \in 1..Len(slice) |-> slice[i].poi]
    IN  Page(paginatedResults, TotalCount(poisWithDistance, paginatedResults))

\* findByRadius: the set of outcomes it can produce on table rows.  A NaN
\* bound reaches the statement as the bare word NaN: the engine refuses the
\* statement, or compares every longitude with it as false.
FindByRadius(rows, latitude, longitude, radius, categories, limit, offset) ==
    IF ~IsValidCoordinate(latitude, longitude)
    THEN {PlainError(<<"Invalid coordinates">>)}
    ELSE IF radius < 0 \/ radius > MaxRadius
    THEN {PlainError(<<"Radius must be between 0 and 20 kilometers">>)}
    ELSE LET bbox == GetBoundingBox(latitude, longitude, radius)
             page == RadiusPage(rows, latitude, longitude, radius, categories,
                                limit, offset)
         IN  IF bbox.west = NaN \/ bbox.east = NaN
             THEN {DatabaseError(<<"no such column: NaN">>), page}
             ELSE {page}

\* the where condition of findByBoundingBox on a row
BoundingBoxWhere(r, north, south, east, west, categories) ==
    /\ Between(r.latitude, south, north)
    /\ LongitudeCondition(r.longitude, west, east)
    /\ CategoryCondition(r.category, categories)

\* findAndCountAll({where, limit, offset, order})
FindAndCountAll(matched, limit, offset) ==
    Page(Slice(OrderByRankName(matched), offset, limit), Cardinality(matched))

FindByBoundingBox(rows, north, south, east, west, categories, limit, offset) ==
    IF \/ ~IsValidCoordinate(north, 0)
       \/ ~IsValidCoordinate(south, 0)
       \/ ~IsValidCoordinate(0, east)
       \/ ~IsValidCoordinate(0, west)
    THEN PlainError(<<"Invalid bounding box coordinates">>)
    ELSE IF north <= south
    THEN PlainError(<<"North boundary must be greater than south boundary">>)
    ELSE FindAndCountAll(
             {r \in rows : BoundingBoxWhere(r, north, south, east, west,
                                            categories)},
             limit, offset)

\* the where condition of findByName on a row: name LIKE '%<name>%'
NameWhere(r, name, categories) ==
    /\ Like(r.name, <<Percent>> \o Trim(name) \o <<Percent>>)
    /\ CategoryCondition(r.category, categories)

FindByName(rows, name, categories, limit, offset) ==
    IF Trim(name) = <<>>
    THEN PlainError(<<"Name search string is required">>)
    ELSE FindAndCountAll({r \in rows : NameWhere(r, name, categories)},
                         limit, offset)

FindByRadiusCall(p, latitude, longitude, radius, categories, limit, offset) ==
    /\ CanCall(p)
    /\ \E r \in FindByRadius(pois, latitude, longitude, radius, categories,
                             limit, offset) :
          Finish(p, [IdleProc EXCEPT !.op = "findByRadius",
                        !.args = [latitude |-> latitude,
                                  longitude |-> longitude, radius |-> radius,
                                  categories |-> categories, limit |-> limit,
                                  offset |-> offset]], r)
    /\ UNCHANGED <<bookings, nextId, now, tzOffset, pois, favorites, nextFavoriteId>>

FindByBoundingBoxCall(p, north, south, east, west, categories, limit, offset) ==
    /\ CanCall(p)
    /\ Finish(p, [IdleProc EXCEPT !.op = "findByBoundingBox",
                     !.args = [north |-> north, south |-> south,
                               east |-> east, west |-> west,
                               categories |-> categories, limit |-> limit,
                               offset |-> offset]],
              FindByBoundingBox(pois, north, south, east, west, categories,
                                limit, offset))
    /\ UNCHANGED <<bookings, nextId, now, tzOffset, pois, favorites, nextFavoriteId>>

FindByNameCall(p, name, categories, limit, offset) ==
    /\ CanCall(p)
    /\ Finish(p, [IdleProc EXCEPT !.op = "findByName",
                     !.args = [name |-> name, categories |-> categories,
                               limit |-> limit, offset |-> offset]],
              FindByName(pois, name, categories, limit, offset))
    /\ UNCHANGED <<bookings, nextId, now, tzOffset, pois, favorites, nextFavoriteId>>

\* ---------------------------------------------------------- FavoritesService

\* the storage engine refuses a row that repeats a unique key
UniqueConstraintError ==
    [kind |-> "error", name |-> "SequelizeUniqueConstraintError",
     message |-> <<"Validation error">>, parameter |-> "none"]

\* UserFavorite.findOne({ where: { userId, poiId } })
FindFavorite(favs, userId, poiId) ==
    {f \in favs : f.userId = userId /\ f.poiId = poiId}

\* mutant: the table without its unique index
M_ViolatesUniqueIndex(favs, userId, poiId) == FALSE

\* idx_user_favorites_unique on (userId, poiId)
ViolatesUniqueIndex(favs, userId, poiId) ==
    \E f \in favs : f.userId = userId /\ f.poiId = poiId

\* lines 15-22: await PointOfInterest.findByPk(poiId)
AddFavoriteCall(p, u, poi) ==
    /\ CanCall(p)
    /\ LET rec == [IdleProc EXCEPT !.op = "addFavorite", !.userId = u,
                                   !.poiId = poi]
       IN  IF FindPoiByPk(pois, poi) = {}
           THEN Finish(p, rec,
                       NotFoundError(<<"Point of Interest not found">>,
                                     "poiId"))
           ELSE procs' = [procs EXCEPT ![p] = [rec EXCEPT !.pc = "findOne"]]
    /\ UNCHANGED <<bookings, nextId, now, tzOffset, pois, favorites, nextFavoriteId>>

\* lines 24-33: await UserFavorite.findOne(...); if (existing) throw
AddFavoriteFindOne(p) ==
    /\ AtStep(p, "addFavorite", "findOne")
    /\ IF FindFavorite(favorites, procs[p].userId, procs[p].poiId) # {}
       THEN Finish(p, procs[p],
                   ValidationError(<<"POI is already in favorites">>, "poiId"))
       ELSE procs' = [procs EXCEPT ![p].pc = "create"]
    /\ UNCHANGED <<bookings, nextId, now, tzOffset, pois, favorites, nextFavoriteId>>

\* lines 35-41: await UserFavorite.create({ userId, poiId })
AddFavoriteCreate(p) ==
    /\ AtStep(p, "addFavorite", "create")
    /\ nextFavoriteId <= MaxFavoriteId
    /\ IF ViolatesUniqueIndex(favorites, procs[p].userId, procs[p].poiId)
       THEN /\ Finish(p, procs[p], UniqueConstraintError)
            /\ UNCHANGED <<favorites, nextFavoriteId>>
       ELSE LET favorite == [id |-> nextFavoriteId,
                             userId |-> procs[p].userId,
                             poiId |-> procs[p].poiId]
            IN  /\ favorites' = favorites \cup {favorite}
                /\ nextFavoriteId' = nextFavoriteId + 1
                /\ Finish(p, procs[p],
                          [kind |-> "favorite", favorite |-> favorite])
    /\ UNCHANGED <<bookings, nextId, now, tzOffset, pois>>

\* lines 50-59: await UserFavorite.findOne(...); if (!favorite) throw
RemoveFavoriteCall(p, u, poi) ==
    /\ CanCall(p)
    /\ LET rec == [IdleProc EXCEPT !.op = "removeFavorite", !.userId = u,
                                   !.poiId = poi]
           found == FindFavorite(favorites, u, poi)
       IN  IF found = {}
           THEN Finish(p, rec, NotFoundError(<<"Favorite not found">>,
                                             "poiId"))
           ELSE \E f \in found :
                   procs' = [procs EXCEPT ![p] =
                               [rec EXCEPT !.pc = "destroy",
                                           !.bookingId = f.id]]
    /\ UNCHANGED <<bookings, nextId, now, tzOffset, pois, favorites, nextFavoriteId>>

\* lines 61-62: await favorite.destroy(); return true
RemoveFavoriteDestroy(p) ==
    /\ AtStep(p, "removeFavorite", "destroy")
    /\ favorites' = {f \in favorites : f.id # procs[p].bookingId}
    /\ Finish(p, procs[p], [kind |-> "removed"])
    /\ UNCHANGED <<bookings, nextId, now, tzOffset, pois, nextFavoriteId>>

\* ---------------------------------------------------------- getUserBookings

\* mutant: the where clause dropped
M_UserBookings(bks, rows, userId) ==
    {b \in bks : FindPoiByPk(rows, b.poiId) # {}}

\* where: { userId }, include: [{ model: PointOfInterest, required: true }]
UserBookings(bks, rows, userId) ==
    {b \in bks : b.userId = userId /\ FindPoiByPk(rows, b.poiId) # {}}

\* order: [['startDate', 'ASC'], ['createdAt', 'DESC']]; a booking created
\* later has the greater id
StartsBefore(a, b) ==
    \/ a.startDate < b.startDate
    \/ a.startDate = b.startDate /\ a.id > b.id

RECURSIVE OrderByStartDate(_)
OrderByStartDate(rows) ==
    IF rows = {} THEN <<>>
    ELSE LET first == CHOOSE a \in rows :
                          \A b \in rows \ {a} : StartsBefore(a, b)
         IN  <<first>> \o OrderByStartDate(rows \ {first})

GetUserBookings(bks, rows, userId, limit, offset) ==
    LET matched == UserBookings(bks, rows, userId)
    IN  Page(Slice(OrderByStartDate(matched), offset, limit),
             Cardinality(matched))

GetUserBookingsCall(p, u, limit, offset) ==
    /\ CanCall(p)
    /\ Finish(p, [IdleProc EXCEPT !.op = "getUserBookings", !.userId = u,
                     !.args = [limit |-> limit, offset |-> offset]],
              GetUserBookings(bookings, pois, u, limit, offset))
    /\ UNCHANGED <<bookings, nextId, now, tzOffset, pois, favorites, nextFavoriteId>>

\* ------------------------------------------------- middleware, controllers

\* a query parameter is <<>> when absent and <<v>> when present; a number
\* that does not parse is <<NaN>>.  Strings are sequences of code units.
Comma == 44
MaxNameLength == 255
MaxPageLimit == 100
DefaultRadius == 1
DefaultLimit == 10
DefaultOffset == 0

\* the category names, as the strings of a query and as stored
CategoryName ==
    (  <<83, 73, 71, 72, 84, 83>> :> "SIGHTS"
    @@ <<66, 69, 65, 67, 72, 95, 80, 65, 82, 75>> :> "BEACH_PARK"
    @@ <<72, 73, 83, 84, 79, 82, 73, 67, 65, 76>> :> "HISTORICAL"
    @@ <<78, 73, 71, 72, 84, 76, 73, 70, 69>> :> "NIGHTLIFE"
    @@ <<82, 69, 83, 84, 65, 85, 82, 65, 78, 84>> :> "RESTAURANT"
    @@ <<83, 72, 79, 80, 80, 73, 78, 71>> :> "SHOPPING" )

\* mutant: a category list that lets every value through
M_VALID_CATEGORIES == Seq(0..127)

VALID_CATEGORIES == DOMAIN CategoryName

MandatoryDataMissingError(detail, parameter) ==
    [kind |-> "error", name |-> "MandatoryDataMissingError",
     message |-> detail, parameter |-> parameter]

InvalidOptionError(detail, parameter) ==
    [kind |-> "error", name |-> "InvalidOptionError", message |-> detail,
     parameter |-> parameter]

\* s.split(sep)
RECURSIVE Split(_, _)
Split(s, sep) ==
    IF \A i \in 1..Len(s) : s[i] # sep
    THEN <<s>>
    ELSE LET i == CHOOSE k \in 1..Len(s) :
                      s[k] = sep /\ \A j \in 1..(k - 1) : s[j] # sep
         IN  <<SubSeq(s, 1, i - 1)>> \o Split(SubSeq(s, i + 1, Len(s)), sep)

\* the categories parameter: undefined, a string (text), an array of strings
\* (items), or another object
CategoryArray(categories) ==
    IF categories.type = "array"
    THEN categories.items
    ELSE LET parts == Split(categories.text, Comma)
         IN  [i \in 1..Len(parts) |-> Trim(parts[i])]

CategoriesGiven(categories) ==
    /\ categories.type # "undefined"
    /\ ~(categories.type = "string" /\ categories.text = <<>>)

\* the categories block of the three validators
ValidateCategories(categories) ==
    IF ~CategoriesGiven(categories) THEN NoResult
    ELSE IF categories.type \notin {"array", "string"}
    THEN ValidationError(<<"categories must be a string or array">>,
                         "categories")
    ELSE IF \E i \in 1..Len(CategoryArray(categories)) :
               CategoryArray(categories)[i] \notin VALID_CATEGORIES
    THEN InvalidOptionError(<<"Invalid category">>, "categories")
    ELSE NoResult

\* a required number within [low, high]
ValidateNumber(value, parameter, low, high) ==
    IF value = <<>>
    THEN MandatoryDataMissingError(<<parameter, "is required">>, parameter)
    ELSE IF value[1] = NaN
    THEN ValidationError(<<parameter, "must be a valid number">>, parameter)
    ELSE IF value[1] < low \/ value[1] > high
    THEN ValidationError(<<parameter, "out of range">>, parameter)
    ELSE NoResult

ValidateLimit(limit) ==
    IF limit = <<>> THEN NoResult
    ELSE IF limit[1] = NaN \/ limit[1] < 1
    THEN ValidationError(<<"page[limit] must be a positive integer">>,
                         "page[limit]")
    ELSE IF limit[1] > MaxPageLimit
    THEN InvalidOptionError(<<"page[limit] must not exceed 100">>,
                            "page[limit]")
    ELSE NoResult

ValidateOffset(offset) ==
    IF offset = <<>> THEN NoResult
    ELSE IF offset[1] = NaN \/ offset[1] < 0
    THEN ValidationError(<<"page[offset] must be a non-negative integer">>,
                         "page[offset]")
    ELSE NoResult

\* the first error of a validator's checks, or NoResult when it calls next()
RECURSIVE FirstError(_)
FirstError(checks) ==
    IF checks = <<>> THEN NoResult
    ELSE IF IsError(Head(checks)) THEN Head(checks)
    ELSE FirstError(Tail(checks))

ValidateRadius(radius) ==
    IF radius = <<>> THEN NoResult
    ELSE IF radius[1] = NaN
    THEN ValidationError(<<"radius must be a valid integer">>, "radius")
    ELSE IF radius[1] < 0 \/ radius[1] > MaxRadius
    THEN InvalidOptionError(<<"radius must be between 0 and 20 kilometers">>,
                            "radius")
    ELSE NoResult

ValidateGetPois(q) ==
    FirstError(<<
        ValidateNumber(q.latitude, "latitude", -PoleLatitude * Degree,
                       PoleLatitude * Degree),
        ValidateNumber(q.longitude, "longitude", -DateLine * Degree,
                       DateLine * Degree),
        ValidateRadius(q.radius),
        ValidateCategories(q.categories),
        ValidateLimit(q.limit),
        ValidateOffset(q.offset)>>)

NorthNotAboveSouth(q) ==
    IF q.north[1] <= q.south[1]
    THEN ValidationError(<<"north must be greater than south">>, "north")
    ELSE NoResult

ValidateGetPoisBySquare(q) ==
    LET latitudes ==
            FirstError(<<
                ValidateNumber(q.north, "north", -PoleLatitude * Degree,
                               PoleLatitude * Degree),
                ValidateNumber(q.south, "south", -PoleLatitude * Degree,
                               PoleLatitude * Degree)>>)
    IN  IF IsError(latitudes) THEN latitudes
        ELSE FirstError(<<
                 NorthNotAboveSouth(q),
                 ValidateNumber(q.east, "east", -DateLine * Degree,
                                DateLine * Degree),
                 ValidateNumber(q.west, "west", -DateLine * Degree,
                                DateLine * Degree),
                 ValidateCategories(q.categories),
                 ValidateLimit(q.limit),
                 ValidateOffset(q.offset)>>)

ValidateName(name) ==
    IF name = <<>> \/ name[1] = <<>>
    THEN MandatoryDataMissingError(<<"name is required">>, "name")
    ELSE IF Trim(name[1]) = <<>>
    THEN ValidationError(<<"name cannot be empty">>, "name")
    ELSE IF Len(name[1]) > MaxNameLength
    THEN ValidationError(<<"name must be less than 255 characters">>, "name")
    ELSE NoResult

ValidateGetPoisByName(q) ==
    FirstError(<<
        ValidateName(q.name),
        ValidateCategories(q.categories),
        ValidateLimit(q.limit),
        ValidateOffset(q.offset)>>)

\* the controllers' reading of the query
QueryCategories(categories) ==
    IF ~CategoriesGiven(categories) \/ categories.type \notin {"array", "string"}
    THEN {}
    ELSE {IF c \in DOMAIN CategoryName THEN CategoryName[c] ELSE "OTHER" :
             c \in {CategoryArray(categories)[i] :
                       i \in 1..Len(CategoryArray(categories))}}

QueryNumber(value, default) == IF value = <<>> THEN default ELSE value[1]

\* router.get(path, validate, controller): the validator runs; on an error
\* it calls next(error) and the controller is skipped
Validate(p, route, q, check) ==
    IF IsError(check)
    THEN Finish(p, [IdleProc EXCEPT !.op = route,
                       !.args = [query |-> q, call |-> "none"]], check)
    ELSE procs' = [procs EXCEPT ![p] =
                     [IdleProc EXCEPT !.op = route, !.pc = "validated",
                         !.args = [query |-> q, call |-> "none"]]]

GetPoisValidate(p, q) ==
    /\ CanCall(p)
    /\ Validate(p, "GET /pois", q, ValidateGetPois(q))
    /\ UNCHANGED <<bookings, nextId, now, tzOffset, pois, favorites, nextFavoriteId>>

GetPoisBySquareValidate(p, q) ==
    /\ CanCall(p)
    /\ Validate(p, "GET /pois/by-square", q, ValidateGetPoisBySquare(q))
    /\ UNCHANGED <<bookings, nextId, now, tzOffset, pois, favorites, nextFavoriteId>>

GetPoisByNameValidate(p, q) ==
    /\ CanCall(p)
    /\ Validate(p, "GET /pois/by-name", q, ValidateGetPoisByName(q))
    /\ UNCHANGED <<bookings, nextId, now, tzOffset, pois, favorites, nextFavoriteId>>

\* the controller calls the service and ends the request with its outcome
Served(p, call, r) ==
    Finish(p, [procs[p] EXCEPT !.args.call = call], r)

GetPointsOfInterest(p) ==
    /\ AtStep(p, "GET /pois", "validated")
    /\ LET q == procs[p].args.query
       IN  \E r \in FindByRadius(pois, q.latitude[1], q.longitude[1],
                        QueryNumber(q.radius, DefaultRadius),
                        QueryCategories(q.categories),
                        QueryNumber(q.limit, DefaultLimit),
                        QueryNumber(q.offset, DefaultOffset)) :
               Served(p, "findByRadius", r)
    /\ UNCHANGED <<bookings, nextId, now, tzOffset, pois, favorites, nextFavoriteId>>

GetPointsOfInterestBySquare(p) ==
    /\ AtStep(p, "GET /pois/by-square", "validated")
    /\ LET q == procs[p].args.query
       IN  Served(p, "findByBoundingBox",
               FindByBoundingBox(pois, q.north[1], q.south[1], q.east[1],
                   q.west[1], QueryCategories(q.categories),
                   QueryNumber(q.limit, DefaultLimit),
                   QueryNumber(q.offset, DefaultOffset)))
    /\ UNCHANGED <<bookings, nextId, now, tzOffset, pois, favorites, nextFavoriteId>>

GetPointsOfInterestByName(p) ==
    /\ AtStep(p, "GET /pois/by-name", "validated")
    /\ LET q == procs[p].args.query
       IN  Served(p, "findByName",
               FindByName(pois, q.name[1], QueryCategories(q.categories),
                   QueryNumber(q.limit, DefaultLimit),
                   QueryNumber(q.offset, DefaultOffset)))
    /\ UNCHANGED <<bookings, nextId, now, tzOffset, pois, favorites, nextFavoriteId>>

\* -------------------------------------------------------- responseFormatter

OmittedLimit == 10

\* buildUrl(newOffset, newLimit): the page parameters of the link;
\* page[offset] is left out when 0 and page[limit] when 10
BuildUrl(newOffset, newLimit) ==
    [offset |-> IF newOffset > 0 THEN <<newOffset>> ELSE <<>>,
     limit |-> IF newLimit # OmittedLimit THEN <<newLimit>> ELSE <<>>]

\* mutant: a next link also on the page that ends at totalCount
M_HasNextPage(totalCount, limit, offset) == offset + limit <= totalCount

\* if (offset + limit < totalCount)
HasNextPage(totalCount, limit, offset) == offset + limit < totalCount

\* a link of meta.links is <<>> when absent and <<url>> when present
BuildPaginationMeta(totalCount, limit, offset) ==
    LET lastOffset == MathMax(0, ((totalCount - 1) \div limit) * limit)
    IN  [kind |-> "meta",
         count |-> totalCount,
         self |-> <<BuildUrl(offset, limit)>>,
         first |-> <<BuildUrl(0, limit)>>,
         last |-> <<BuildUrl(lastOffset, limit)>>,
         previous |-> IF offset > 0
                      THEN <<BuildUrl(MathMax(0, offset - limit), limit)>>
                      ELSE <<>>,
         next |-> IF HasNextPage(totalCount, limit, offset)
                  THEN <<BuildUrl(offset + limit, limit)>>
                  ELSE <<>>]

\* the indexes of a result of totalCount items, and those on one page
Indexes(totalCount) == [i \in 1..totalCount |-> i - 1]

\* a controller answers the page at offset, limit of a result of totalCount
\* items: formatCollectionResponse(items, ..., totalCount, limit, offset)
PageAt(rec, totalCount, limit, offset) ==
    [rec EXCEPT !.op = "page", !.pc = "page",
        !.args = [totalCount |-> totalCount, limit |-> limit,
                  offset |-> offset,
                  start |-> IF rec.op = "page" THEN rec.args.start
                            ELSE offset,
                  items |-> (IF rec.op = "page" THEN rec.args.items
                             ELSE <<>>)
                            \o Slice(Indexes(totalCount), offset, limit)],
        !.result = BuildPaginationMeta(totalCount, limit, offset)]

PageCall(p, totalCount, limit, offset) ==
    /\ CanCall(p)
    /\ procs' = [procs EXCEPT ![p] = PageAt(IdleProc, totalCount, limit,
                                            offset)]
    /\ UNCHANGED <<bookings, nextId, now, tzOffset, pois, favorites, nextFavoriteId>>

\* the client requests the next link of the page it holds; the controller
\* reads page[offset] and page[limit] from it
FollowNext(p) ==
    /\ AtStep(p, "page", "page")
    /\ procs[p].result.next # <<>>
    /\ LET url == procs[p].result.next[1]
       IN  procs' = [procs EXCEPT ![p] =
                       PageAt(procs[p], procs[p].args.totalCount,
                              QueryNumber(url.limit, DefaultLimit),
                              QueryNumber(url.offset, DefaultOffset))]
    /\ UNCHANGED <<bookings, nextId, now, tzOffset, pois, favorites, nextFavoriteId>>

\* the page has no next link: the client stops
LastPage(p) ==
    /\ AtStep(p, "page", "page")
    /\ procs[p].result.next = <<>>
    /\ procs' = [procs EXCEPT ![p].pc = "done"]
    /\ UNCHANGED <<bookings, nextId, now, tzOffset, pois, favorites, nextFavoriteId>>

\* ----------------------------------------------------------------- clock

Tick ==
    /\ NoPendingResponse
    /\ now + HoursPerDay <= MaxNow
    /\ now' = now + HoursPerDay
    /\ UNCHANGED <<bookings, nextId, tzOffset, pois, favorites, nextFavoriteId, procs>>

\* ------------------------------------------------------------ specifications

OneUser == {1}

\* a server running in UTC
UtcInit == Init /\ tzOffset = 0

\* One request at a time, within the day the server started.
SeqProc == "a"

Next ==
    \/ \E u \in Users, poi \in Pois, s \in Days, e \in Days :
          CreateBookingCall(SeqProc, u, poi, s, e)
    \/ CreateBookingCheck(SeqProc)
    \/ CreateBookingInsert(SeqProc)
    \/ CreateBookingReload(SeqProc)
    \/ \E id \in BookingIds, u \in Users : GetBookingByIdCall(SeqProc, id, u)
    \/ \E id \in BookingIds, u \in Users : CancelBookingCall(SeqProc, id, u)
    \/ CancelBookingDestroy(SeqProc)
    \/ \E poi \in Pois, s \in Days, e \in Days :
          CheckAvailabilityCall(SeqProc, poi, s, e, NoId)
    \/ Respond(SeqProc)

Spec == UtcInit /\ [][Next]_vars

\* Two requests whose storage steps interleave, all bookings made by one
\* user.

ConcurrentNext ==
    \/ \E p \in Procs, u \in OneUser, poi \in Pois, s \in Days,
          e \in Days :
          CreateBookingCall(p, u, poi, s, e)
    \/ \E p \in Procs : CreateBookingCheck(p)
    \/ \E p \in Procs : CreateBookingInsert(p)
    \/ \E p \in Procs : CreateBookingReload(p)
    \/ \E p \in Procs, id \in BookingIds, u \in OneUser :
          CancelBookingCall(p, id, u)
    \/ \E p \in Procs : CancelBookingDestroy(p)
    \/ \E p \in Procs : Respond(p)

ConcurrentSpec == UtcInit /\ [][ConcurrentNext]_vars

\* createBooking requests, one at a time, on servers in several time zones,
\* the clock advancing between steps.
ClockNext ==
    \/ \E u \in OneUser, poi \in PoiIds, s \in DateInputs,
          e \in DateInputs :
          CreateBookingCall(SeqProc, u, poi, s, e)
    \/ CreateBookingCheck(SeqProc)
    \/ CreateBookingInsert(SeqProc)
    \/ CreateBookingReload(SeqProc)
    \/ Respond(SeqProc)
    \/ Tick

ClockSpec == Init /\ [][ClockNext]_vars

\* checkAvailability and createBooking requests, one at a time, for stored and
\* missing POIs, with and without a booking to exclude.
ExcludeIds == {NoId} \cup BookingIds

AvailabilityInit ==
    /\ bookings = {}
    /\ nextId = 1
    /\ now = StartNow
    /\ tzOffset = 0
    /\ procs = [p \in Procs |-> IdleProc]
    /\ pois = {r \in PoiPool : r.id \in Pois}
    /\ favorites = {[id |-> 1, userId |-> u, poiId |-> "p1"] : u \in OneUser}
    /\ nextFavoriteId = 2

AvailabilityNext ==
    \/ \E u \in OneUser, poi \in PoiIds, s \in Days, e \in Days :
          CreateBookingCall(SeqProc, u, poi, s, e)
    \/ CreateBookingCheck(SeqProc)
    \/ CreateBookingInsert(SeqProc)
    \/ CreateBookingReload(SeqProc)
    \/ \E poi \in PoiIds, s \in DateInputs, e \in DateInputs,
          excl \in ExcludeIds :
          CheckAvailabilityCall(SeqProc, poi, s, e, excl)
    \/ Respond(SeqProc)

AvailabilitySpec == AvailabilityInit /\ [][AvailabilityNext]_vars

\* Searches, one at a time, over every table drawn from the pool.
CategoryFilters == {{}, {"SIGHTS", "BEACH_PARK"}}
Limits == 1..MaxLimit
Offsets == 0..MaxOffset
Norths == {90000000}
Souths == {-1000000, 59000000}
Meridians == {-170000000, 0, 170000000}
SearchNames == {<<97>>, <<66>>, <<32, 98>>, <<Underscore>>}

SearchInit ==
    /\ bookings = {}
    /\ nextId = 1
    /\ now = StartNow
    /\ tzOffset = 0
    /\ procs = [p \in Procs |-> IdleProc]
    /\ pois \in SUBSET PoiPool
    /\ favorites = {}
    /\ nextFavoriteId = 1

SearchNext ==
    \/ \E c \in Centers, radius \in Radii, categories \in CategoryFilters,
          limit \in Limits, offset \in Offsets :
          FindByRadiusCall(SeqProc, c[1], c[2], radius, categories, limit,
                           offset)
    \/ \E north \in Norths, south \in Souths, east \in Meridians,
          west \in Meridians, categories \in CategoryFilters,
          limit \in Limits, offset \in Offsets :
          FindByBoundingBoxCall(SeqProc, north, south, east, west, categories,
                                limit, offset)
    \/ \E name \in SearchNames, categories \in CategoryFilters,
          limit \in Limits, offset \in Offsets :
          FindByNameCall(SeqProc, name, categories, limit, offset)
    \/ Respond(SeqProc)

SearchSpec == SearchInit /\ [][SearchNext]_vars

\* Requests to the three search routes, one at a time, over the table of
\* the initial state.
Sights == <<83, 73, 71, 72, 84, 83>>
Restaurant == <<82, 69, 83, 84, 65, 85, 82, 65, 78, 84>>
Museum == <<77, 85, 83, 69, 85, 77>>
NoCategories == [type |-> "undefined", text |-> <<>>, items |-> <<>>]
CategoryText(s) == [type |-> "string", text |-> s, items |-> <<>>]
CategoryItems(a) == [type |-> "array", text |-> <<>>, items |-> a]
CategoryInputs ==
    {NoCategories,
     [type |-> "object", text |-> <<>>, items |-> <<>>],
     CategoryText(<<>>),
     CategoryText(Sights),
     CategoryText(Sights \o <<Comma, Space>> \o Restaurant),
     CategoryText(Sights \o <<Comma>> \o Museum),
     CategoryText(Sights \o <<Comma>>),
     CategoryText(PrimaryKey(Sights)),
     CategoryItems(<<Sights, Restaurant>>),
     CategoryItems(<<Sights, <<Space>> \o Restaurant>>),
     CategoryItems(<<Museum>>)}
LimitInputs == {<<>>, <<0>>, <<1>>}
OffsetInputs == {<<>>, <<1>>}

RadiusQueries ==
    [latitude : {<<>>, <<0>>}, longitude : {<<0>>},
     radius : {<<>>, <<10>>, <<MaxRadius + 1>>},
     categories : CategoryInputs, limit : LimitInputs, offset : OffsetInputs]

SquareQueries ==
    [north : {<<PoleLatitude * Degree>>}, south : {<<>>, <<-Degree>>},
     east : {<<0>>}, west : {<<0>>, <<-170 * Degree>>},
     categories : CategoryInputs, limit : LimitInputs, offset : OffsetInputs]

NameQueries ==
    [name : {<<>>, <<<<Space>>>>, <<<<98>>>>},
     categories : CategoryInputs, limit : LimitInputs, offset : OffsetInputs]

RequestNext ==
    \/ \E q \in RadiusQueries : GetPoisValidate(SeqProc, q)
    \/ \E q \in SquareQueries : GetPoisBySquareValidate(SeqProc, q)
    \/ \E q \in NameQueries : GetPoisByNameValidate(SeqProc, q)
    \/ GetPointsOfInterest(SeqProc)
    \/ GetPointsOfInterestBySquare(SeqProc)
    \/ GetPointsOfInterestByName(SeqProc)
    \/ Respond(SeqProc)

RequestSpec == UtcInit /\ [][RequestNext]_vars

\* Bookings of one day made by two users, and their lists, one request at a
\* time.
ListNext ==
    \/ \E u \in Users, poi \in Pois, s \in Days :
          CreateBookingCall(SeqProc, u, poi, s, s + 1)
    \/ CreateBookingCheck(SeqProc)
    \/ CreateBookingInsert(SeqProc)
    \/ CreateBookingReload(SeqProc)
    \/ \E u \in Users, limit \in Limits, offset \in Offsets :
          GetUserBookingsCall(SeqProc, u, limit, offset)
    \/ Respond(SeqProc)

ListSpec == UtcInit /\ [][ListNext]_vars

\* Favorites added and removed by two requests in flight.
FavoritesNext ==
    \E p \in Procs :
        \/ \E u \in Users, poi \in PoiIds : AddFavoriteCall(p, u, poi)
        \/ AddFavoriteFindOne(p)
        \/ AddFavoriteCreate(p)
        \/ \E u \in Users, poi \in Pois : RemoveFavoriteCall(p, u, poi)
        \/ RemoveFavoriteDestroy(p)
        \/ Respond(p)

FavoritesSpec == UtcInit /\ [][FavoritesNext]_vars

\* A client pages through a result by its next links.
PageLimits == Limits \cup {DefaultLimit}

PagesNext ==
    \/ \E totalCount \in 0..MaxTotalCount, limit \in PageLimits,
          offset \in Offsets :
          PageCall(SeqProc, totalCount, limit, offset)
    \/ FollowNext(SeqProc)
    \/ LastPage(SeqProc)
    \/ Respond(SeqProc)

\* a client that holds a page follows its next link or stops
PagesSpec ==
    /\ UtcInit
    /\ [][PagesNext]_vars
    /\ WF_vars(FollowNext(SeqProc))
    /\ WF_vars(LastPage(SeqProc))

\* createBooking and cancelBooking requests that can fail in every way, one
\* at a time, across a change of day.
FailureNext ==
    \/ \E u \in OneUser, poi \in PoiIds, s \in DateInputs,
          e \in DateInputs :
          CreateBookingCall(SeqProc, u, poi, s, e)
    \/ CreateBookingCheck(SeqProc)
    \/ CreateBookingInsert(SeqProc)
    \/ CreateBookingReload(SeqProc)
    \/ \E id \in BookingIds, u \in Users : CancelBookingCall(SeqProc, id, u)
    \/ CancelBookingDestroy(SeqProc)
    \/ Respond(SeqProc)
    \/ Tick

FailureSpec == UtcInit /\ [][FailureNext]_vars

\* Every operation invoked, one request at a time; each storage call of a
\* request in progress returns.
TerminationNext ==
    \/ /\ nextId <= MaxBookingId
       /\ \E u \in OneUser, poi \in PoiIds, s \in Days, e \in Days :
             CreateBookingCall(SeqProc, u, poi, s, e)
    \/ CreateBookingCheck(SeqProc)
    \/ CreateBookingInsert(SeqProc)
    \/ CreateBookingReload(SeqProc)
    \/ \E id \in BookingIds, u \in Users : CancelBookingCall(SeqProc, id, u)
    \/ CancelBookingDestroy(SeqProc)
    \/ \E poi \in PoiIds, s \in Days, e \in Days :
          CheckAvailabilityCall(SeqProc, poi, s, e, NoId)
    \/ \E c \in Centers, radius \in Radii, categories \in CategoryFilters :
          FindByRadiusCall(SeqProc, c[1], c[2], radius, categories,
                           DefaultLimit, DefaultOffset)
    \/ \E south \in Souths, east \in Meridians, west \in Meridians :
          FindByBoundingBoxCall(SeqProc, PoleLatitude * Degree, south, east,
                                west, {}, DefaultLimit, DefaultOffset)
    \/ \E name \in SearchNames :
          FindByNameCall(SeqProc, name, {}, DefaultLimit, DefaultOffset)
    \/ Respond(SeqProc)

TerminationSpec ==
    /\ UtcInit
    /\ [][TerminationNext]_vars
    /\ WF_vars(CreateBookingCheck(SeqProc))
    /\ WF_vars(CreateBookingInsert(SeqProc))
    /\ WF_vars(CreateBookingReload(SeqProc))
    /\ WF_vars(CancelBookingDestroy(SeqProc))

\* ------------------------------------------------------------------ claims

LiveIds == {b.id : b \in bookings}

\* the closed-interval rule of the data model
Conflict(a, b) == a.startDate <= b.endDate /\ a.endDate >= b.startDate

\* C1: in every reachable state, no two live bookings of the same poiId
\* conflict under the closed-interval rule, whatever the interleaving of the
\* createBooking and cancelBooking calls that led there.
C1_NoDoubleBooking ==
    \A a \in bookings, b \in bookings :
        (a # b /\ a.poiId = b.poiId) => ~Conflict(a, b)

Inserted(p) ==
    /\ procs[p].op = "createBooking"
    /\ procs[p].bookingId \in LiveIds

\* C2: of two createBooking calls in flight together for the same POI with
\* overlapping intervals, never both get past the insert: one succeeds and
\* the other is refused with the conflict error.
C2_OneConcurrentCreateSucceeds ==
    \A p \in Procs, q \in Procs :
        (/\ p # q
         /\ procs[p].poiId = procs[q].poiId
         /\ Conflict(procs[p], procs[q]))
        => ~(Inserted(p) /\ Inserted(q))

\* a call that has returned or thrown and whose response is being sent
Returned(p, op) == procs[p].pc = "done" /\ procs[p].op = op

\* a candidate interval the availability precondition admits
WellFormed(s, e) == s \in Days /\ e \in Days /\ s < e

ConflictingLive(poiId, s, e) ==
    {b \in bookings : b.poiId = poiId /\ b.startDate <= e /\ b.endDate >= s}

\* C3: for an existing POI and a well-formed candidate interval,
\* checkAvailability answers available:false if and only if some live booking
\* of that poiId has existingStart <= candidateEnd and existingEnd >=
\* candidateStart, compared by day (so a booking ending on day N conflicts
\* with a candidate starting on day N, and not with one starting on N+1).
C3_UnavailableIffConflict ==
    \A p \in Procs :
        (/\ Returned(p, "checkAvailability")
         /\ procs[p].poiId \in Pois
         /\ WellFormed(procs[p].startDate, procs[p].endDate))
        => /\ procs[p].result.kind = "availability"
           /\ (procs[p].result.available = FALSE)
                <=> (ConflictingLive(procs[p].poiId, procs[p].startDate,
                                     procs[p].endDate) # {})

\* C3 witness: a candidate starting on the day a live booking ends is refused
C3_Witness ==
    \E p \in Procs :
        /\ Returned(p, "checkAvailability")
        /\ procs[p].result.kind = "availability"
        /\ ~procs[p].result.available
        /\ \E b \in bookings : /\ b.poiId = procs[p].poiId
                               /\ b.endDate = procs[p].startDate

\* C4: when checkAvailability answers available:false, the conflict it
\* reports is the id and dates of a live booking of the queried poiId that
\* conflicts with the candidate; when no live booking conflicts the answer is
\* {available: true} with no conflict field.
C4_ReportedConflictIsReal ==
    \A p \in Procs :
        (/\ Returned(p, "checkAvailability")
         /\ procs[p].result.kind = "availability")
        => LET r == procs[p].result
               live == ConflictingLive(procs[p].poiId, procs[p].startDate,
                                       procs[p].endDate)
           IN  /\ ~r.available =>
                     \E b \in live : /\ r.conflict.id = b.id
                                     /\ r.conflict.startDate = b.startDate
                                     /\ r.conflict.endDate = b.endDate
               /\ live = {} =>
                     /\ r.available
                     /\ DOMAIN r = {"kind", "available"}

\* C4 witness: a conflict is reported while another booking, not conflicting,
\* is live too
C4_Witness ==
    \E p \in Procs :
        /\ Returned(p, "checkAvailability")
        /\ procs[p].result.kind = "availability"
        /\ ~procs[p].result.available
        /\ procs[p].result.conflict.startDate < procs[p].result.conflict.endDate
        /\ \E b \in bookings : b.id # procs[p].result.conflict.id

ConflictText ==
    "POI is not available for the selected dates. Conflicts with existing booking"

IsConflictError(r) ==
    /\ r.kind = "error"
    /\ r.name = "ValidationError"
    /\ r.message[1] = ConflictText

\* C5: a createBooking request that passed validation (POI exists, interval
\* well-formed, start not refused as past) fails with the conflict error
\* exactly when checkAvailability for the same poiId and interval reports
\* unavailable on the storage it reads, and the error message carries the
\* start and end date of a conflict checkAvailability reports there.
C5_ConflictErrorIffUnavailable ==
    [][\A p \in Procs :
          (/\ procs[p].op = "createBooking"
           /\ procs[p].pc = "checkAvailability"
           /\ procs'[p] # procs[p])
          => LET outs == CheckAvailability(bookings, procs[p].poiId,
                             procs[p].startDate, procs[p].endDate, NoId)
                 refusals == {r \in outs : r.kind = "availability"
                                           /\ ~r.available}
             IN  /\ procs[p].poiId \in Pois
                 /\ WellFormed(procs[p].startDate, procs[p].endDate)
                 /\ IF refusals # {}
                    THEN /\ procs'[p].pc = "done"
                         /\ IsConflictError(procs'[p].result)
                         /\ procs'[p].result.parameter = "startDate, endDate"
                         /\ \E r \in refusals :
                               procs'[p].result.message =
                                   <<ConflictText, r.conflict.startDate,
                                     r.conflict.endDate>>
                    ELSE /\ procs'[p].pc = "create"
                         /\ procs'[p].result = NoResult
      ]_vars

\* C5 witness: a createBooking has been refused with the conflict error
C5_Witness ==
    \E p \in Procs :
        /\ Returned(p, "createBooking")
        /\ IsConflictError(procs[p].result)
        /\ ConflictingLive(procs[p].poiId, procs[p].startDate,
                           procs[p].endDate) # {}

PastError ==
    ValidationError(<<"Start date cannot be in the past">>, "startDate")

\* C6: createBooking (POI existing, interval well-formed) refuses the request
\* as past if and only if startDate is strictly before the calendar date of
\* the creation instant on the server's calendar, whatever the time zone.
C6_PastIffBeforeToday ==
    [][\A p \in Procs :
          (/\ procs[p].pc = "idle"
           /\ procs'[p].op = "createBooking"
           /\ procs'[p].poiId \in Pois
           /\ WellFormed(procs'[p].startDate, procs'[p].endDate))
          => ((procs'[p].pc = "done" /\ procs'[p].result = PastError)
                <=> procs'[p].startDate < CalendarDate(now, tzOffset))
      ]_vars

\* the step of a createBooking call by p
CreateBookingStep(p) ==
    procs'[p].op = "createBooking" /\ procs'[p] # procs[p]

\* C7: a successful createBooking(userId, poiId, interval) adds exactly one
\* live booking, carrying that userId, poiId, startDate and endDate, under a
\* fresh id, and removes or changes no booking that was live; what it returns
\* is that record joined with its POI.
C7_CreateAddsExactlyOne ==
    [][\A p \in Procs :
          CreateBookingStep(p) =>
            LET new == [id |-> procs'[p].bookingId,
                        userId |-> procs'[p].userId,
                        poiId |-> procs'[p].poiId,
                        startDate |-> procs'[p].startDate,
                        endDate |-> procs'[p].endDate]
            IN  /\ IF procs[p].pc = "create" /\ procs'[p].pc = "reload"
                   THEN /\ \A b \in bookings : b.id # new.id
                        /\ bookings' = bookings \cup {new}
                   ELSE bookings' = bookings
                /\ (procs'[p].pc = "done" /\ procs'[p].result.kind = "booking")
                     => /\ procs[p].pc = "reload"
                        /\ procs'[p].result.booking = new
                        /\ new \in bookings'
                        /\ procs'[p].result.poi = new.poiId
                        /\ new.poiId \in Pois
      ]_vars

\* C7 witness: a createBooking has returned its booking while an earlier
\* booking is still live
C7_Witness ==
    \E p \in Procs :
        /\ Returned(p, "createBooking")
        /\ procs[p].result.kind = "booking"
        /\ procs[p].result.booking \in bookings
        /\ \E b \in bookings : b.id < procs[p].result.booking.id

\* C8: getBookingById and cancelBooking on a booking owned by another user
\* end exactly as they would if no booking had that id (same error class,
\* message and parameter), and the booking stays live.
C8_NotOwnedLooksAbsent ==
    [][\A p \in Procs : \A b \in bookings :
          (/\ procs[p].pc = "idle"
           /\ procs'[p].op \in {"getBookingById", "cancelBooking"}
           /\ procs'[p].bookingId = b.id
           /\ procs'[p].userId # b.userId)
          => /\ procs'[p].pc = "done"
             /\ procs'[p].result =
                  (IF procs'[p].op = "getBookingById"
                   THEN GetBookingById(bookings \ {b}, b.id, procs'[p].userId)
                   ELSE CancelBookingLookup(bookings \ {b}, b.id,
                                            procs'[p].userId))
             /\ procs'[p].result.kind = "error"
             /\ b \in bookings'
      ]_vars

\* C8 witness: a cancelBooking by a user who does not own the live booking
\* has been refused
C8_Witness ==
    \E p \in Procs : \E b \in bookings :
        /\ Returned(p, "cancelBooking")
        /\ procs[p].bookingId = b.id
        /\ procs[p].userId # b.userId
        /\ procs[p].result.kind = "error"

\* ids handed out whose booking is no longer live: cancelled bookings
Destroyed == {id \in 1..(nextId - 1) : id \notin LiveIds}

\* C9: when the owner's cancelBooking succeeds the booking is gone, and it
\* stays gone: every getBookingById or cancelBooking that looks the id up
\* afterwards reports not-found, checkAvailability never reports it as the
\* conflict, and a createBooking that passed validation and meets no live
\* conflicting booking is inserted and returned.
C9_DestroyIsFinal ==
    [][/\ \A p \in Procs :
            (procs[p].pc = "destroy" /\ procs'[p].pc = "done")
            => /\ procs'[p].result = [kind |-> "value", value |-> TRUE]
               /\ \A b \in bookings' : b.id # procs[p].bookingId
       /\ \A id \in Destroyed : \A b \in bookings' : b.id # id
       /\ \A p \in Procs :
            (/\ procs[p].pc = "idle"
             /\ procs'[p].op \in {"getBookingById", "cancelBooking"}
             /\ procs'[p].bookingId \in Destroyed)
            => /\ procs'[p].pc = "done"
               /\ procs'[p].result =
                    NotFoundError(<<"Booking not found">>, "bookingId")
       /\ \A p \in Procs :
            (/\ procs'[p].pc = "done"
             /\ procs'[p].result.kind = "availability"
             /\ ~procs'[p].result.available)
            => procs'[p].result.conflict.id \notin Destroyed
       /\ \A p \in Procs :
            (procs[p].op = "createBooking" /\ procs'[p] # procs[p])
            => /\ (/\ procs[p].pc = "checkAvailability"
                   /\ ConflictingLive(procs[p].poiId, procs[p].startDate,
                                      procs[p].endDate) = {})
                    => procs'[p].pc = "create"
               /\ procs[p].pc = "create" => procs'[p].pc = "reload"
               /\ procs[p].pc = "reload" => procs'[p].result.kind = "booking"
      ]_vars

\* C9 witness: after a booking was cancelled, a createBooking for the POI has
\* returned its booking and a lookup of the cancelled id is possible
C9_Witness ==
    \E p \in Procs :
        /\ Returned(p, "createBooking")
        /\ procs[p].result.kind = "booking"
        /\ Destroyed # {}
        /\ \A b \in bookings : b.poiId = procs[p].poiId => b = procs[p].result.booking

\* C10: every live booking has endDate strictly after startDate (a same-day
\* or reversed interval is never persisted).
C10_EndAfterStart ==
    \A b \in bookings : b.endDate > b.startDate

\* C10 witness: a same-day createBooking was refused while a booking is live
C10_Witness ==
    /\ bookings # {}
    /\ \E p \in Procs :
          /\ Returned(p, "createBooking")
          /\ procs[p].poiId \in Pois
          /\ procs[p].startDate \in Days
          /\ procs[p].endDate = procs[p].startDate
          /\ procs[p].result =
               ValidationError(<<"End date must be after start date">>,
                               "endDate")

PoiNotFound == NotFoundError(<<"Point of Interest not found">>, "poiId")

\* C11: checkAvailability and createBooking called with a poiId that
\* identifies no stored POI fail with the not-found error: the call ends at
\* once with NotFoundError on parameter poiId, never with an availability
\* answer, and createBooking leaves the bookings table and the id counter as
\* they were.
C11_MissingPoiIsNotFound ==
    [][\A p \in Procs :
          (/\ procs[p].pc = "idle"
           /\ procs'[p].op \in {"checkAvailability", "createBooking"}
           /\ \A r \in pois : r.id # procs'[p].poiId)
          => /\ procs'[p].pc = "done"
             /\ procs'[p].result = PoiNotFound
             /\ bookings' = bookings
             /\ nextId' = nextId
      ]_vars

\* C11 witness: with a booking live, a createBooking for a missing POI has
\* been refused as not found
C11_Witness ==
    \E p \in Procs :
        /\ Returned(p, "createBooking")
        /\ procs[p].poiId \notin {r.id : r \in pois}
        /\ procs[p].result = PoiNotFound
        /\ bookings # {}

\* a step in which checkAvailability runs: the call itself, or the check
\* inside createBooking
CheckAvailabilityStep(p) ==
    \/ procs[p].pc = "idle" /\ procs'[p].op = "checkAvailability"
    \/ /\ procs[p].op = "createBooking"
       /\ procs[p].pc = "checkAvailability"
       /\ procs'[p] # procs[p]

\* C12: checkAvailability is a pure read: whatever its arguments, and whether
\* it answers or throws, the bookings, the POIs and the favorites are the same
\* after the call as before it.
C12_CheckAvailabilityReadsOnly ==
    [][\A p \in Procs :
          CheckAvailabilityStep(p)
          => /\ bookings' = bookings
             /\ pois' = pois
             /\ favorites' = favorites
             /\ nextId' = nextId
      ]_vars

\* C12 witness: checkAvailability has answered available:true while bookings
\* and a favorite are stored
C12_Witness ==
    \E p \in Procs :
        /\ Returned(p, "checkAvailability")
        /\ procs[p].result.kind = "availability"
        /\ procs[p].result.available
        /\ bookings # {}
        /\ favorites # {}

\* C13: checkAvailability(poiId, interval, excludeBookingId = b) has the
\* outcomes of checkAvailability(poiId, interval) on the same storage with
\* booking b removed, and b is never the conflict it reports.
C13_ExcludeIsRemoval ==
    \A p \in Procs :
        (Returned(p, "checkAvailability") /\ procs[p].excludeBookingId # NoId)
        => LET b == procs[p].excludeBookingId
               without == {x \in bookings : x.id # b}
               onRemoved == CheckAvailability(without, procs[p].poiId,
                                procs[p].startDate, procs[p].endDate, NoId)
           IN  /\ procs[p].result \in onRemoved
               /\ CheckAvailability(bookings, procs[p].poiId,
                       procs[p].startDate, procs[p].endDate, b) = onRemoved
               /\ (procs[p].result.kind = "availability"
                    /\ ~procs[p].result.available)
                     => procs[p].result.conflict.id # b

\* C13 witness: the excluded booking conflicts with the candidate, and the
\* answer is available:true
C13_Witness ==
    \E p \in Procs : \E b \in bookings :
        /\ Returned(p, "checkAvailability")
        /\ procs[p].excludeBookingId = b.id
        /\ b.poiId = procs[p].poiId
        /\ Conflict(b, procs[p])
        /\ procs[p].result.kind = "availability"
        /\ procs[p].result.available

\* the elements of a sequence
Range(seq) == {seq[i] : i \in 1..Len(seq)}

\* a limit no result exceeds: the unpaginated search
Unpaginated == Cardinality(PoiPool)

\* the distance of a stored POI to the centre of a radius search
DistanceTo(a, r) ==
    CalculateDistance(a.latitude, a.longitude, r.latitude, r.longitude)

\* the stored POIs inside the circle of a radius search that pass its
\* category filter
InsideCircle(a) ==
    {r \in pois : /\ DistanceTo(a, r) <= a.radius * MetresPerKm
                  /\ (a.categories # {} => r.category \in a.categories)}

\* C14: for every centre with latitude in [-90, 90] and longitude in
\* [-180, 180] and every radius in [0, 20], every stored POI whose distance
\* to the centre is <= radius and whose category passes the filter is in the
\* unpaginated searchByRadius result: the bounding box never excludes a POI
\* inside the circle.
C14_CircleInsideBox ==
    \A p \in Procs :
        Returned(p, "findByRadius")
        => LET a == procs[p].args
           IN  \A out \in FindByRadius(pois, a.latitude, a.longitude,
                              a.radius, a.categories, Unpaginated, 0) :
                   /\ out.kind = "page"
                   /\ InsideCircle(a) \subseteq Range(out.rows)

\* C15: every POI returned by searchByRadius has Haversine distance to the
\* centre <= radius, and the boundary is inclusive: a POI the bounding-box
\* query yields at distance exactly radius is kept, one farther is dropped.
C15_ReturnedWithinRadius ==
    \A p \in Procs :
        (Returned(p, "findByRadius") /\ procs[p].result.kind = "page")
        => LET a == procs[p].args
               candidates == Range(PoisInBox(pois, a.latitude, a.longitude,
                                             a.radius, a.categories))
               whole == Range(RadiusPage(pois, a.latitude, a.longitude,
                                  a.radius, a.categories, Unpaginated, 0).rows)
           IN  /\ \A r \in Range(procs[p].result.rows) :
                     DistanceTo(a, r) <= a.radius * MetresPerKm
               /\ \A r \in candidates :
                     r \in whole
                       <=> DistanceTo(a, r) <= a.radius * MetresPerKm

\* C15 witness: a search of radius 0 has returned the POI at its centre, at
\* distance exactly 0, from a table that holds farther POIs too
C15_Witness ==
    \E p \in Procs :
        /\ Returned(p, "findByRadius")
        /\ procs[p].result.kind = "page"
        /\ procs[p].args.radius = 0
        /\ \E r \in Range(procs[p].result.rows) :
              DistanceTo(procs[p].args, r) = 0
        /\ \E r \in pois : DistanceTo(procs[p].args, r) > 0

\* the rows a bounding box denotes
InsideBox(a) ==
    {r \in pois :
        /\ r.latitude >= a.south
        /\ r.latitude <= a.north
        /\ IF a.west < a.east
           THEN r.longitude >= a.west /\ r.longitude <= a.east
           ELSE r.longitude >= a.west \/ r.longitude <= a.east
        /\ (a.categories # {} => r.category \in a.categories)}

\* the length of the page at offset, limit of a result of count items
PageLength(count, limit, offset) ==
    IF offset >= count THEN 0
    ELSE IF count - offset < limit THEN count - offset ELSE limit

InsideBand(a) ==
    {r \in pois :
        /\ r.latitude >= a.south
        /\ r.latitude <= a.north
        /\ (a.categories # {} => r.category \in a.categories)}

\* C17: a searchByBoundingBox call with east = west is a full wrap: it
\* matches the POIs at every longitude inside the latitude band.
C17_EqualMeridiansWrap ==
    \A p \in Procs :
        (/\ Returned(p, "findByBoundingBox")
         /\ procs[p].result.kind = "page"
         /\ procs[p].args.west = procs[p].args.east)
        => procs[p].result.count = Cardinality(InsideBand(procs[p].args))

\* the pages of a radius search at offsets offset, offset + limit, ...,
\* one after the other
RECURSIVE ConcatPages(_, _, _)
ConcatPages(a, limit, offset) ==
    LET page == RadiusPage(pois, a.latitude, a.longitude, a.radius,
                           a.categories, limit, offset)
    IN  IF offset >= page.count
        THEN page.rows
        ELSE page.rows \o ConcatPages(a, limit, offset + limit)

NameLeq(a, b) == a = b \/ SeqLess(a, b)

\* C19: the items returned by searchByRadius, searchByBoundingBox and
\* searchByName are ordered by rank ascending and, among equal ranks, by name
\* ascending: of two consecutive items a, b either a.rank < b.rank, or
\* a.rank = b.rank and a.name <= b.name.
C19_OrderedByRankThenName ==
    \A p \in Procs :
        (/\ procs[p].pc = "done"
         /\ procs[p].op \in {"findByRadius", "findByBoundingBox", "findByName"}
         /\ procs[p].result.kind = "page")
        => LET rows == procs[p].result.rows
           IN  \A i \in 1..(Len(rows) - 1) :
                   \/ rows[i].rank < rows[i + 1].rank
                   \/ /\ rows[i].rank = rows[i + 1].rank
                      /\ NameLeq(rows[i].name, rows[i + 1].name)

\* C20: the totalCount of searchByRadius is the number of POIs that pass the
\* bounding-box, category and distance filters, the same for every limit and
\* offset; it is not the length of the page nor the number of bounding-box
\* candidates.
C20_TotalCountIsSurvivors ==
    \A p \in Procs :
        (Returned(p, "findByRadius") /\ procs[p].result.kind = "page")
        => LET a == procs[p].args
               bbox == GetBoundingBox(a.latitude, a.longitude, a.radius)
               survivors ==
                   {r \in pois :
                       /\ RadiusWhere(r, bbox, a.categories)
                       /\ DistanceTo(a, r) <= a.radius * MetresPerKm}
           IN  /\ procs[p].result.count = Cardinality(survivors)
               /\ \A limit \in Limits, offset \in Offsets :
                     RadiusPage(pois, a.latitude, a.longitude, a.radius,
                                a.categories, limit, offset).count
                       = procs[p].result.count

\* C20 witness: a page shorter than the count, and a count smaller than the
\* number of bounding-box candidates
C20_Witness ==
    \E p \in Procs :
        /\ Returned(p, "findByRadius")
        /\ procs[p].result.kind = "page"
        /\ Len(procs[p].result.rows) < procs[p].result.count
        /\ procs[p].result.count
             < Len(PoisInBox(pois, procs[p].args.latitude,
                             procs[p].args.longitude, procs[p].args.radius,
                             procs[p].args.categories))

\* C21: a searchByRadius call whose offset is at or beyond the number of
\* matching POIs (the stored POIs inside the circle that pass the category
\* filter) returns an empty item list, raises no error, and still reports the
\* full totalCount.
C21_OffsetBeyondEndIsEmpty ==
    \A p \in Procs :
        (/\ Returned(p, "findByRadius")
         /\ procs[p].args.offset >= Cardinality(InsideCircle(procs[p].args)))
        => /\ procs[p].result.kind = "page"
           /\ procs[p].result.rows = <<>>
           /\ procs[p].result.count = Cardinality(InsideCircle(procs[p].args))

\* the stored POIs that match the region or name condition of a finished
\* search, whatever their category
Region(p) ==
    LET a == procs[p].args
    IN  CASE procs[p].op = "findByRadius" ->
               LET bbox == GetBoundingBox(a.latitude, a.longitude, a.radius)
               IN  {r \in pois :
                       /\ Between(r.latitude, bbox.south, bbox.north)
                       /\ LongitudeCondition(r.longitude, bbox.west, bbox.east)
                       /\ DistanceTo(a, r) <= a.radius * MetresPerKm}
          [] procs[p].op = "findByBoundingBox" ->
               {r \in pois :
                   /\ Between(r.latitude, a.south, a.north)
                   /\ LongitudeCondition(r.longitude, a.west, a.east)}
          [] procs[p].op = "findByName" ->
               {r \in pois :
                   Like(r.name, <<Percent>> \o Trim(a.name) \o <<Percent>>)}

\* C22: with a non-empty category set, searchByRadius, searchByBoundingBox
\* and searchByName return only POIs whose category is one of the given
\* values, and every POI that matches the region or name condition and has
\* one of those categories is counted; with an absent or empty set no POI is
\* excluded on category.
C22_CategoryFilter ==
    \A p \in Procs :
        (/\ procs[p].pc = "done"
         /\ procs[p].op \in {"findByRadius", "findByBoundingBox", "findByName"}
         /\ procs[p].result.kind = "page")
        => LET categories == procs[p].args.categories
               allowed == IF categories = {}
                          THEN Region(p)
                          ELSE {r \in Region(p) : r.category \in categories}
           IN  /\ Range(procs[p].result.rows) \subseteq allowed
               /\ procs[p].result.count = Cardinality(allowed)

\* C22 witness: a search for two categories has returned a POI of each while
\* a POI of a third category matches its name condition
C22_Witness ==
    \E p \in Procs :
        /\ Returned(p, "findByName")
        /\ procs[p].result.kind = "page"
        /\ Cardinality(procs[p].args.categories) = 2
        /\ {r.category : r \in Range(procs[p].result.rows)}
              = procs[p].args.categories
        /\ \E r \in Region(p) : r.category \notin procs[p].args.categories

\* str contains sub as a substring, letters compared without regard to case
Contains(str, sub) ==
    \E i \in 1..(Len(str) - Len(sub) + 1) :
        PrimaryKey(SubSeq(str, i, i + Len(sub) - 1)) = PrimaryKey(sub)

\* C23: searchByName returns, before pagination, exactly the stored POIs
\* whose name contains the search string (its surrounding blanks removed) as
\* a substring, compared case-insensitively, for every search string,
\* including the ones that contain % or _.
C23_NameIsSubstring ==
    \A p \in Procs :
        (Returned(p, "findByName") /\ procs[p].result.kind = "page")
        => LET a == procs[p].args
               named == {r \in pois :
                           /\ Contains(r.name, Trim(a.name))
                           /\ (a.categories # {}
                                 => r.category \in a.categories)}
           IN  /\ procs[p].result.count = Cardinality(named)
               /\ Range(procs[p].result.rows) \subseteq named

\* C26: for every centre with latitude in [-90, 90] and longitude in
\* [-180, 180] and every radius in [0, 20], getBoundingBox returns four
\* numbers with -90 <= south <= north <= 90 and east, west in [-180, 180].
C26_BoundsAreNumbersInRange ==
    \A p \in Procs :
        (/\ Returned(p, "findByRadius")
         /\ IsValidCoordinate(procs[p].args.latitude, procs[p].args.longitude)
         /\ procs[p].args.radius \in 0..MaxRadius)
        => LET bbox == GetBoundingBox(procs[p].args.latitude,
                           procs[p].args.longitude, procs[p].args.radius)
           IN  /\ NaN \notin {bbox.north, bbox.south, bbox.east, bbox.west}
               /\ -PoleLatitude * Degree <= bbox.south
               /\ bbox.south <= bbox.north
               /\ bbox.north <= PoleLatitude * Degree
               /\ bbox.east \in (-DateLine * Degree)..(DateLine * Degree)
               /\ bbox.west \in (-DateLine * Degree)..(DateLine * Degree)

SearchRoutes == {"GET /pois", "GET /pois/by-square", "GET /pois/by-name"}

\* the category values a categories parameter carries: the elements of an
\* array, or the comma-separated parts of a non-empty string without their
\* surrounding blanks
Carried(categories) ==
    IF categories.type = "array"
    THEN Range(categories.items)
    ELSE IF categories.type = "string" /\ categories.text # <<>>
    THEN {Trim(part) : part \in Range(Split(categories.text, Comma))}
    ELSE {}

CarriesUnknownCategory(p) ==
    /\ procs[p].op \in SearchRoutes
    /\ \E c \in Carried(procs[p].args.query.categories) :
          c \notin DOMAIN CategoryName

\* C24: a search request carrying a category outside SIGHTS, BEACH_PARK,
\* HISTORICAL, NIGHTLIFE, RESTAURANT, SHOPPING never gets past its
\* validator: it is answered with a validation error (status 400) and the
\* search operation is not invoked for it.
C24_UnknownCategoryRejected ==
    \A p \in Procs :
        CarriesUnknownCategory(p)
        => /\ procs[p].pc \in {"done"}
           /\ procs[p].args.call = "none"
           /\ IsError(procs[p].result)
           /\ procs[p].result.name \in {"ValidationError",
                  "InvalidOptionError", "MandatoryDataMissingError"}

\* C24 witness: a by-name request for "SIGHTS,MUSEUM", otherwise valid, has
\* been answered with the invalid-option error on categories
C24_Witness ==
    \E p \in Procs :
        /\ procs[p].pc = "done"
        /\ procs[p].op = "GET /pois/by-name"
        /\ procs[p].args.query.categories
             = CategoryText(Sights \o <<Comma>> \o Museum)
        /\ procs[p].args.query.name = <<<<98>>>>
        /\ procs[p].args.call = "none"
        /\ procs[p].result.name = "InvalidOptionError"
        /\ procs[p].result.parameter = "categories"

AddFavoriteStep(p) ==
    /\ procs'[p] # procs[p]
    /\ procs'[p].op = "addFavorite"

\* C29: in every reachable state there is at most one favorite per
\* (userId, poiId), also after two interleaved addFavorite calls for the same
\* pair; a step of addFavorite for a pair that already has a favorite creates
\* no record.
C29_OneFavoritePerPair ==
    /\ [](\A f \in favorites, g \in favorites :
              (f.userId = g.userId /\ f.poiId = g.poiId) => f = g)
    /\ [][\A p \in Procs :
             (/\ AddFavoriteStep(p)
              /\ FindFavorite(favorites, procs'[p].userId,
                              procs'[p].poiId) # {})
             => favorites' = favorites
         ]_vars

\* C29 witness: of two addFavorite calls for one pair that both found no
\* favorite, one has created it and the other was refused by the index
C29_Witness ==
    \E p \in Procs :
        /\ Returned(p, "addFavorite")
        /\ procs[p].result = UniqueConstraintError
        /\ Cardinality(FindFavorite(favorites, procs[p].userId,
                                    procs[p].poiId)) = 1

OnPage(p) == procs[p].op = "page" /\ procs[p].pc = "page"

FailsNow(p) ==
    /\ procs'[p] # procs[p]
    /\ procs'[p].op \in {"createBooking", "cancelBooking"}
    /\ procs'[p].pc = "done"
    /\ IsError(procs'[p].result)

\* C27: a createBooking call that fails (POI not found, unparseable date,
\* end not after start, start in the past, conflict) and a cancelBooking call
\* that fails (booking missing or another user's) leave the live bookings
\* exactly as they were before the call: the failing step changes nothing,
\* and no earlier step of the call has inserted or destroyed a row.
C27_FailedCallChangesNothing ==
    [][\A p \in Procs :
          FailsNow(p)
          => /\ bookings' = bookings
             /\ nextId' = nextId
             /\ procs'[p].op = "createBooking"
                  => procs'[p].bookingId = NoId
             /\ procs'[p].op = "cancelBooking" => procs[p].pc = "idle"
      ]_vars

\* C27 witness: a cancelBooking by a user who does not own the booking has
\* failed, and the booking is live
C27_Witness ==
    \E p \in Procs : \E b \in bookings :
        /\ Returned(p, "cancelBooking")
        /\ IsError(procs[p].result)
        /\ b.id = procs[p].bookingId
        /\ b.userId # procs[p].userId

Operations ==
    {"createBooking", "checkAvailability", "cancelBooking", "findByRadius",
     "findByBoundingBox", "findByName"}

\* p's call has been invoked and has neither returned nor thrown
InProgress(p) ==
    procs[p].op \in Operations /\ procs[p].pc \notin {"idle", "done"}

\* p's call has completed with a result or an error
Completed(p) ==
    /\ procs[p].op \in Operations
    /\ procs[p].pc = "done"
    /\ procs[p].result # NoResult

\* C25: every invoked createBooking, checkAvailability, cancelBooking and
\* search call eventually completes with a result or an error, provided each
\* storage call returns; and for every valid centre and every radius in
\* [0, 20] each of the two normalizeLongitude calls of getBoundingBox ends,
\* after at most one turn of its loops.
C25_EveryCallCompletes ==
    /\ InProgress(SeqProc) ~> Completed(SeqProc)
    /\ [](procs[SeqProc].op \in Operations
            => InProgress(SeqProc) \/ Completed(SeqProc))
    /\ [](Returned(SeqProc, "findByRadius")
            => LET a == procs[SeqProc].args
                   deltaLon == ToDegreesAsin(
                                   SinRadDistOverCosLat(a.latitude, a.radius))
               IN  /\ NormalizeLongitudeIterations(
                          Plus(a.longitude, deltaLon)) <= 1
                   /\ NormalizeLongitudeIterations(
                          Minus(a.longitude, deltaLon)) <= 1)

\* C25 witness: a radius search whose box crosses the date line, where
\* normalizeLongitude has to turn, has completed
C25_Witness ==
    /\ Returned(SeqProc, "findByRadius")
    /\ Completed(SeqProc)
    /\ LET a == procs[SeqProc].args
       IN  NormalizeLongitudeIterations(
               Plus(a.longitude,
                    ToDegreesAsin(SinRadDistOverCosLat(a.latitude, a.radius))))
             = 1

====
